---- MODULE Spec2Model ----
(***************************************************************************)
(* topogi-renderer: the render-tree builder (src/src/render_tree.rs, with  *)
(* the module-split builders of block.rs, stack.rs and text.rs) and the    *)
(* layout/render engine (src/src/renderer.rs and src/src/lib.rs).          *)
(***************************************************************************)
EXTENDS Integers, Sequences, FiniteSets, TLC

VARIABLES
    pc,        \* position of the host: "idle", "built", "rendering", "done"
    entry,     \* the entry point that was called
    exp,       \* the expression value handed to the entry point
    result,    \* what a builder call returned (Ok / Err)
    area,      \* the Rect of the frame being drawn
    work,      \* pending calls of the depth-first render pass, next call first
    frame,     \* the frame buffer: cell -> what was painted last
    painted,   \* cell -> set of layer indices whose tree painted the cell
    visits,    \* render_tree calls made so far, in call order
    splits,    \* one record per Stack node laid out during the pass
    outcome    \* what the entry point returned to the host

vars == <<pc, entry, exp, result, area, work, frame, painted, visits, splits, outcome>>

(***************************************************************************)
(* Bounds of the model.                                                    *)
(***************************************************************************)
MaxElems == 2      \* stack elements / layer trees per expression
MaxClauses == 2    \* clauses per style list
MaxDepth == 2      \* nesting depth of block/stack expressions
MaxWidth == 4      \* columns of the largest drawing area
MaxHeight == 3     \* rows of the largest drawing area

U16 == 65536       \* 2^16, the modulus of `value as u16`

(***************************************************************************)
(* topogi_lang::ast::Exp -- Integer | String | Symbol | List.              *)
(***************************************************************************)
Integer(n) == [t |-> "Integer", v |-> n]
String(s) == [t |-> "String", v |-> s]
Symbol(s) == [t |-> "Symbol", v |-> s]
List(es) == [t |-> "List", v |-> es]

None == [none |-> TRUE]
Some(x) == [some |-> x]

as_list(e) == IF e.t = "List" THEN Some(e.v) ELSE None
as_symbol(e) == IF e.t = "Symbol" THEN Some(e.v) ELSE None
as_integer(e) == IF e.t = "Integer" THEN Some(e.v) ELSE None

\* Exp::to_string: a string literal prints without quotes (test_create_text),
\* a symbol prints its name (test_create_block), a list prints its elements
\* between parentheses.
RECURSIVE to_string(_), join(_)
to_string(e) ==
    CASE e.t = "Integer" -> ToString(e.v)
      [] e.t = "String" -> e.v
      [] e.t = "Symbol" -> e.v
      [] e.t = "List" -> "(" \o join(e.v) \o ")"
join(es) ==
    IF es = <<>> THEN ""
    ELSE IF Len(es) = 1 THEN to_string(es[1])
    ELSE to_string(es[1]) \o " " \o join(Tail(es))

(***************************************************************************)
(* Result<T, RenderTreeError> and the error variants.                      *)
(***************************************************************************)
Ok(x) == [ok |-> TRUE, val |-> x]
Err(x) == [ok |-> FALSE, err |-> x]

ExpectedList(e) == [e |-> "ExpectedList", exp |-> e]
ExpectInteger(e) == [e |-> "ExpectInteger", exp |-> e]
ExpectedSymbol(what, e) == [e |-> "ExpectedSymbol", what |-> what, exp |-> e]
InvalidLength(e) == [e |-> "InvalidLength", exp |-> e]
InvalidDirection(s) == [e |-> "InvalidDirection", text |-> s]

(***************************************************************************)
(* The render tree of render_tree.rs.                                      *)
(***************************************************************************)
Text(s) == [k |-> "Text", content |-> s]
BlockStyle_default == [title_align |-> "Left"]
Block_new(title, content) ==
    [title |-> title, content |-> content, style |-> BlockStyle_default]
BlockNode(b) == [k |-> "Block", block |-> b]
Stack(d, elems) == [k |-> "Stack", direction |-> d, elements |-> elems]
StackElement_new(c, content) == [constraint |-> c, content |-> content]
Constraint(kind, n) == [kind |-> kind, n |-> n]

\* out-of-range values are clamped to the nearest bound instead of wrapped
AsU16_Saturating(v) == IF v < 0 THEN 0 ELSE IF v >= U16 THEN U16 - 1 ELSE v

AsU16(v) == v % U16

(***************************************************************************)
(* BlockStyle::title_align and BlockStyle::from_exp.                       *)
(***************************************************************************)
\* an unknown alignment value is taken as Center
BlockStyle_title_align_Lenient(e) ==
    IF as_list(e) = None THEN Err(ExpectedList(e))
    ELSE LET elems == e.v IN
         IF Len(elems) # 2 THEN Err(InvalidLength(e))
         ELSE IF as_symbol(elems[1]) # Some("title_align")
              THEN Err(ExpectedSymbol("title_align", e))
         ELSE CASE as_symbol(elems[2]) = Some("left") -> Ok("Left")
                [] as_symbol(elems[2]) = Some("right") -> Ok("Right")
                [] OTHER -> Ok("Center")

BlockStyle_title_align(e) ==
    IF as_list(e) = None THEN Err(ExpectedList(e))
    ELSE LET elems == e.v IN
         IF Len(elems) # 2 THEN Err(InvalidLength(e))
         ELSE IF as_symbol(elems[1]) # Some("title_align")
              THEN Err(ExpectedSymbol("title_align", e))
         ELSE CASE as_symbol(elems[2]) = Some("center") -> Ok("Center")
                [] as_symbol(elems[2]) = Some("left") -> Ok("Left")
                [] as_symbol(elems[2]) = Some("right") -> Ok("Right")
                [] OTHER -> Err(ExpectedSymbol("center | left | right", e))

\* the loop `for style in elems.iter().skip(1)`, from clause i on
RECURSIVE BlockStyle_clauses(_, _, _)
BlockStyle_clauses(elems, i, style) ==
    IF i > Len(elems) THEN style
    ELSE LET r == BlockStyle_title_align(elems[i]) IN
         BlockStyle_clauses(elems, i + 1,
             IF r.ok THEN [style EXCEPT !.title_align = r.val] ELSE style)

\* a clause that fails to parse fails the style
BlockStyle_from_exp_Strict(e) ==
    IF as_list(e) = None THEN Err(ExpectedList(e))
    ELSE LET elems == e.v IN
         IF Len(elems) < 2 THEN Err(InvalidLength(e))
         ELSE IF as_symbol(elems[1]) # Some("style")
              THEN Err(ExpectedSymbol("style", e))
         ELSE IF \E i \in 2..Len(elems) : ~BlockStyle_title_align(elems[i]).ok
              THEN Err(InvalidLength(e))
         ELSE Ok(BlockStyle_clauses(elems, 2, BlockStyle_default))

BlockStyle_from_exp(e) ==
    IF as_list(e) = None THEN Err(ExpectedList(e))
    ELSE LET elems == e.v IN
         IF Len(elems) < 2 THEN Err(InvalidLength(e))
         ELSE IF as_symbol(elems[1]) # Some("style")
              THEN Err(ExpectedSymbol("style", e))
         ELSE Ok(BlockStyle_clauses(elems, 2, BlockStyle_default))

(***************************************************************************)
(* create_integer, create_constraint, create_direction.                    *)
(***************************************************************************)
\* a list is refused instead of being stringified
create_text_NoLists(e) ==
    IF as_list(e) # None THEN Err(InvalidLength(e)) ELSE Ok(Text(to_string(e)))

create_text(e) == Ok(Text(to_string(e)))

create_integer(e) ==
    IF as_integer(e) = None THEN Err(ExpectInteger(e)) ELSE Ok(e.v)

ConstraintOfKind(kind) ==
    CASE kind = "length" -> "Length"
      [] kind = "min" -> "Min"
      [] kind = "max" -> "Max"
      [] kind = "percentage" -> "Percentage"
      [] kind = "fill" -> "Fill"

create_constraint(e) ==
    IF as_list(e) = None THEN Err(ExpectedList(e))
    ELSE LET elems == e.v IN
         IF Len(elems) # 2 THEN Err(ExpectedList(e))
         ELSE IF as_symbol(elems[1]) = None
              THEN Err(ExpectedSymbol("constraint kind", e))
         ELSE LET kind == elems[1].v IN
              IF kind \in {"length", "min", "max", "percentage", "fill"}
              THEN LET value == create_integer(elems[2]) IN
                   IF value.ok
                   THEN Ok(Constraint(ConstraintOfKind(kind), AsU16(value.val)))
                   ELSE value
              ELSE Err(ExpectedSymbol("constraint kind", e))

create_direction(e) ==
    IF as_symbol(e) = None
    THEN Err(ExpectedSymbol("horizontal or vertical", e))
    ELSE CASE e.v = "horizontal" -> Ok("Horizontal")
           [] e.v = "vertical" -> Ok("Vertical")
           [] OTHER -> Err(InvalidDirection(e.v))

(***************************************************************************)
(* Block::from_exp, create_stack_element, create_stack, create_render_tree *)
(* -- mutually recursive.                                                  *)
(***************************************************************************)
RECURSIVE Block_from_exp(_), create_stack_element(_), create_stack_elements(_, _),
          create_stack(_), create_render_tree(_)

Block_from_exp(e) ==
    IF as_list(e) = None THEN Err(ExpectedList(e))
    ELSE LET elems == e.v IN
         IF Len(elems) < 3 THEN Err(InvalidLength(e))
         ELSE IF as_symbol(elems[1]) # Some("block")
              THEN Err(ExpectedSymbol("block", e))
         ELSE LET content == create_render_tree(elems[3]) IN
              IF ~content.ok THEN content
              ELSE LET block == Block_new(to_string(elems[2]), content.val) IN
                   IF Len(elems) >= 4
                   THEN LET style == BlockStyle_from_exp(elems[4]) IN
                        IF style.ok
                        THEN Ok([block EXCEPT !.style = style.val])
                        ELSE style
                   ELSE Ok(block)

create_stack_element(e) ==
    IF as_list(e) = None THEN Err(ExpectedList(e))
    ELSE LET elems == e.v IN
         IF Len(elems) # 2 THEN Err(InvalidLength(e))
         ELSE LET constraint == create_constraint(elems[1]) IN
              IF ~constraint.ok THEN constraint
              ELSE LET content == create_render_tree(elems[2]) IN
                   IF ~content.ok THEN content
                   ELSE Ok(StackElement_new(constraint.val, content.val))

\* elems.iter().skip(2).map(create_stack_element).collect::<Result<Vec<_>>>():
\* the elements from index i on, stopping at the first error
create_stack_elements(elems, i) ==
    IF i > Len(elems) THEN Ok(<<>>)
    ELSE LET head == create_stack_element(elems[i]) IN
         IF ~head.ok THEN head
         ELSE LET rest == create_stack_elements(elems, i + 1) IN
              IF ~rest.ok THEN rest ELSE Ok(<<head.val>> \o rest.val)

\* the elements collected from index 2 instead of index 3
create_stack_SkipOne(e) ==
    IF as_list(e) = None THEN Err(ExpectedList(e))
    ELSE LET elems == e.v IN
         IF Len(elems) < 3 THEN Err(InvalidLength(e))
         ELSE IF as_symbol(elems[1]) # Some("stack")
              THEN Err(ExpectedSymbol("stack", e))
         ELSE LET direction == create_direction(elems[2]) IN
              IF ~direction.ok THEN direction
              ELSE LET stack_elements == create_stack_elements(elems, 4) IN
                   IF ~stack_elements.ok THEN stack_elements
                   ELSE Ok(Stack(direction.val, stack_elements.val))

create_stack(e) ==
    IF as_list(e) = None THEN Err(ExpectedList(e))
    ELSE LET elems == e.v IN
         IF Len(elems) < 3 THEN Err(InvalidLength(e))
         ELSE IF as_symbol(elems[1]) # Some("stack")
              THEN Err(ExpectedSymbol("stack", e))
         ELSE LET direction == create_direction(elems[2]) IN
              IF ~direction.ok THEN direction
              ELSE LET stack_elements == create_stack_elements(elems, 3) IN
                   IF ~stack_elements.ok THEN stack_elements
                   ELSE Ok(Stack(direction.val, stack_elements.val))

\* the cascade without its stack alternative
create_render_tree_NoStack(e) ==
    LET block == Block_from_exp(e) IN
    IF block.ok THEN Ok(BlockNode(block.val)) ELSE create_text(e)

\* the cascade without its final text alternative
create_render_tree_NoText(e) ==
    LET block == Block_from_exp(e) IN
    IF block.ok THEN Ok(BlockNode(block.val)) ELSE create_stack(e)

create_render_tree(e) ==
    LET block == Block_from_exp(e) IN
    IF block.ok THEN Ok(BlockNode(block.val))
    ELSE LET stack == create_stack(e) IN
         IF stack.ok THEN stack
         ELSE create_text(e)

(***************************************************************************)
(* The module-split builder: block.rs, stack.rs and text.rs.  Its tree     *)
(* holds a ratatui Block widget (titles, title alignment, borders) in      *)
(* place of the Block struct of render_tree.rs.                            *)
(***************************************************************************)
Borders_NONE == {}
Borders_ALL == {"Top", "Bottom", "Left", "Right"}
Widget_new == [titles |-> <<>>, titles_alignment |-> "Left", borders |-> Borders_NONE]
WidgetBlock(widget, inner) == [k |-> "Block", widget |-> widget, content |-> inner]

\* helpers of the module-split render_tree.rs that block.rs and stack.rs import
create_list_with_minlen(e, n) ==
    IF as_list(e) = None THEN Err(ExpectedList(e))
    ELSE IF Len(e.v) < n THEN Err(InvalidLength(e))
    ELSE Ok(e.v)
create_list_with_len(e, n) ==
    IF as_list(e) = None THEN Err(ExpectedList(e))
    ELSE IF Len(e.v) # n THEN Err(InvalidLength(e))
    ELSE Ok(e.v)
check_symbol(e, name) ==
    IF as_symbol(e) = Some(name) THEN Ok(name) ELSE Err(ExpectedSymbol(name, e))

title_align(e) ==
    LET elems == create_list_with_len(e, 2) IN
    IF ~elems.ok THEN elems
    ELSE IF ~check_symbol(elems.val[1], "title-align").ok
         THEN check_symbol(elems.val[1], "title-align")
    ELSE CASE as_symbol(elems.val[2]) = Some("center") -> Ok("Center")
           [] as_symbol(elems.val[2]) = Some("left") -> Ok("Left")
           [] as_symbol(elems.val[2]) = Some("right") -> Ok("Right")
           [] OTHER -> Err(ExpectedSymbol("center | left | right", e))

borders(e) ==
    LET elems == create_list_with_len(e, 2) IN
    IF ~elems.ok THEN elems
    ELSE IF ~check_symbol(elems.val[1], "border").ok
         THEN check_symbol(elems.val[1], "border")
    ELSE CASE as_symbol(elems.val[2]) = Some("none") -> Ok(Borders_NONE)
           [] as_symbol(elems.val[2]) = Some("left") -> Ok({"Left"})
           [] as_symbol(elems.val[2]) = Some("right") -> Ok({"Right"})
           [] as_symbol(elems.val[2]) = Some("top") -> Ok({"Top"})
           [] as_symbol(elems.val[2]) = Some("bottom") -> Ok({"Bottom"})
           [] as_symbol(elems.val[2]) = Some("all") -> Ok(Borders_ALL)
           [] OTHER -> Err(ExpectedSymbol("none | left | right | top | bottom | all", e))

\* the loop of block_style, from clause i on
RECURSIVE block_style_clauses(_, _, _)
block_style_clauses(elems, i, block) ==
    IF i > Len(elems) THEN block
    ELSE LET a == title_align(elems[i])
             b == borders(elems[i])
             block1 == IF a.ok THEN [block EXCEPT !.titles_alignment = a.val] ELSE block
             block2 == IF b.ok THEN [block1 EXCEPT !.borders = b.val] ELSE block1
         IN block_style_clauses(elems, i + 1, block2)

block_style(block, e) ==
    LET elems == create_list_with_minlen(e, 2) IN
    IF ~elems.ok THEN elems
    ELSE IF ~check_symbol(elems.val[1], "style").ok
         THEN check_symbol(elems.val[1], "style")
    ELSE Ok(block_style_clauses(elems.val, 2, block))

text_create_text(e) == Ok(Text(to_string(e)))

stack_create_constraint(e) ==
    LET elems == create_list_with_len(e, 2) IN
    IF ~elems.ok THEN elems
    ELSE IF as_symbol(elems.val[1]) = None
         THEN Err(ExpectedSymbol("constraint kind", e))
    ELSE LET kind == elems.val[1].v IN
         IF kind \in {"length", "min", "max", "percentage", "fill"}
         THEN LET value == create_integer(elems.val[2]) IN
              IF value.ok
              THEN Ok(Constraint(ConstraintOfKind(kind), AsU16(value.val)))
              ELSE value
         ELSE Err(ExpectedSymbol("constraint kind", e))

stack_create_direction(e) ==
    IF as_symbol(e) = None
    THEN Err(ExpectedSymbol("horizontal or vertical", e))
    ELSE CASE e.v = "horizontal" -> Ok("Horizontal")
           [] e.v = "vertical" -> Ok("Vertical")
           [] OTHER -> Err(InvalidDirection(e.v))

RECURSIVE create_block(_), stack_create_stack_element(_),
          stack_create_stack_elements(_, _), stack_create_stack(_),
          split_create_render_tree(_)

create_block(e) ==
    LET elems == create_list_with_minlen(e, 3) IN
    IF ~elems.ok THEN elems
    ELSE IF ~check_symbol(elems.val[1], "block").ok
         THEN check_symbol(elems.val[1], "block")
    ELSE LET block == [Widget_new EXCEPT !.titles = <<to_string(elems.val[2])>>]
             inner == split_create_render_tree(elems.val[3])
         IN IF ~inner.ok THEN inner
            ELSE IF Len(elems.val) >= 4
                 THEN LET styled == block_style(block, elems.val[4]) IN
                      IF styled.ok THEN Ok(WidgetBlock(styled.val, inner.val))
                      ELSE styled
                 ELSE Ok(WidgetBlock(block, inner.val))

stack_create_stack_element(e) ==
    LET elems == create_list_with_len(e, 2) IN
    IF ~elems.ok THEN elems
    ELSE LET constraint == stack_create_constraint(elems.val[1]) IN
         IF ~constraint.ok THEN constraint
         ELSE LET content == split_create_render_tree(elems.val[2]) IN
              IF ~content.ok THEN content
              ELSE Ok(StackElement_new(constraint.val, content.val))

stack_create_stack_elements(elems, i) ==
    IF i > Len(elems) THEN Ok(<<>>)
    ELSE LET head == stack_create_stack_element(elems[i]) IN
         IF ~head.ok THEN head
         ELSE LET rest == stack_create_stack_elements(elems, i + 1) IN
              IF ~rest.ok THEN rest ELSE Ok(<<head.val>> \o rest.val)

stack_create_stack(e) ==
    LET elems == create_list_with_minlen(e, 3) IN
    IF ~elems.ok THEN elems
    ELSE IF ~check_symbol(elems.val[1], "stack").ok
         THEN check_symbol(elems.val[1], "stack")
    ELSE LET direction == stack_create_direction(elems.val[2]) IN
         IF ~direction.ok THEN direction
         ELSE LET stack_elements == stack_create_stack_elements(elems.val, 3) IN
              IF ~stack_elements.ok THEN stack_elements
              ELSE Ok(Stack(direction.val, stack_elements.val))

\* create_render_tree of the module-split render_tree.rs: block, then stack,
\* then text
split_create_render_tree(e) ==
    LET block == create_block(e) IN
    IF block.ok THEN block
    ELSE LET stack == stack_create_stack(e) IN
         IF stack.ok THEN stack
         ELSE text_create_text(e)

(***************************************************************************)
(* The expression values the host hands to the builder.                    *)
(***************************************************************************)
SeqsUpTo(S, n) == UNION {[1..k -> S] : k \in 0..n}
NonEmptySeqsUpTo(S, n) == UNION {[1..k -> S] : k \in 1..n}

Leaves == {String("c"), Integer(5)}
Titles == {String("t"), Symbol("title"), Integer(7)}

AlignClauses ==
    {List(<<Symbol(h), Symbol(v)>>) :
        h \in {"title_align", "title-align"}, v \in {"left", "center", "right"}}
BorderClauses ==
    {List(<<Symbol("border"), Symbol("all")>>),
     List(<<Symbol("border"), Symbol("top")>>),
     List(<<Symbol("borders"), Symbol("left")>>)}
BogusClauses ==
    {List(<<Symbol("bogus-clause")>>),
     List(<<Symbol("title_align"), Symbol("diagonal")>>),
     List(<<Symbol("title-align"), String("center")>>),
     List(<<Symbol("title_align"), Symbol("center"), Symbol("left")>>),
     List(<<Symbol("color"), Symbol("red")>>),
     List(<<Symbol("border"), Symbol("diagonal")>>),
     Symbol("title_align")}
Clauses == AlignClauses \cup BorderClauses \cup BogusClauses

StyleLists == {List(<<Symbol("style")>> \o cs) : cs \in SeqsUpTo(Clauses, MaxClauses)}
BadStyles ==
    {String("style"), Symbol("style"), Integer(1), List(<<>>),
     List(<<Symbol("notstyle"), List(<<Symbol("title_align"), Symbol("center")>>)>>),
     List(<<String("style"), List(<<Symbol("title_align"), Symbol("center")>>)>>)}
StyleExps == StyleLists \cup BadStyles

StyledBlocks ==
    {List(<<Symbol("block"), t, String("c"), s>>) :
        t \in {String("t"), Symbol("title")}, s \in StyleExps}
    \cup {List(<<Symbol("block"), String("t"), String("c"), s, Integer(9)>>) :
            s \in BadStyles \cup {List(<<Symbol("style"), c>>) : c \in Clauses}}

ConstraintKinds == {"length", "min", "max", "percentage", "fill"}
ConstraintValues == {-65536, -1, 0, 2, 50, 65535, 65536, 65537, 2147483647}
GoodConstraints ==
    {List(<<Symbol(k), Integer(v)>>) : k \in ConstraintKinds, v \in ConstraintValues}
BadConstraints ==
    {List(<<Symbol("bogus"), Integer(1)>>),
     List(<<Symbol("length"), String("x")>>),
     List(<<Symbol("length")>>),
     List(<<Symbol("length"), Integer(1), Integer(2)>>),
     List(<<String("length"), Integer(1)>>),
     Symbol("length")}
Directions ==
    {Symbol("horizontal"), Symbol("vertical"), Symbol("diagonal"),
     String("diagonal"), String("horizontal"), Integer(1)}

\* block/stack expressions nested to depth d, well-formed and malformed
RECURSIVE Level(_)
Level(d) ==
    IF d = 0 THEN Leaves
    ELSE LET Inner == Level(d - 1) IN
         Leaves
         \cup {List(<<Symbol("block"), String("t2"), c>>) : c \in Inner}
         \cup {List(<<Symbol("block"), String("t")>>), List(<<Symbol("block")>>),
               List(<<Symbol("blok"), String("t"), String("c")>>)}
         \cup {List(<<Symbol("stack"), Symbol("vertical"),
                      List(<<List(<<Symbol("fill"), Integer(1)>>), c>>)>>) : c \in Inner}
         \cup {List(<<Symbol("stack"), Symbol("diagonal"),
                      List(<<List(<<Symbol("length"), Integer(1)>>), String("x")>>)>>)}

NestedBlocks ==
    {List(<<Symbol("block"), t, c>>) : t \in Titles, c \in Level(MaxDepth - 1)}

\* one element, every constraint shape
ConstraintStacks ==
    {List(<<Symbol("stack"), Symbol("horizontal"), List(<<k, String("x")>>)>>) :
        k \in GoodConstraints \cup BadConstraints}
\* one element, every direction shape
DirectionStacks ==
    {List(<<Symbol("stack"), d, List(<<List(<<Symbol("length"), Integer(1)>>), String("x")>>)>>) :
        d \in Directions}
\* one element of every shape, and up to MaxElems elements, in every order,
\* of the shapes that nest one level less
ShortElems ==
    {List(<<List(<<Symbol(k), Integer(1)>>), String("x")>>) : k \in ConstraintKinds}
    \cup {List(<<List(<<Symbol("length"), Integer(1)>>)>>),
          List(<<List(<<Symbol("length"), Integer(1)>>), String("x"), String("y")>>),
          String("x")}
ElemsOver(d) ==
    {List(<<List(<<Symbol("length"), Integer(2)>>), c>>) : c \in Level(d)} \cup ShortElems
StackElems == ElemsOver(MaxDepth - 1)
ElementStacks ==
    {List(<<Symbol("stack"), d>> \o es) :
        d \in {Symbol("horizontal"), Symbol("vertical")},
        es \in SeqsUpTo(StackElems, 1) \cup SeqsUpTo(ElemsOver(MaxDepth - 2), MaxElems)}

BuildInputs ==
    Level(MaxDepth) \cup NestedBlocks \cup StyledBlocks
    \cup ConstraintStacks \cup DirectionStacks \cup ElementStacks
    \cup {Symbol("block"), Symbol("stack"), List(<<>>)}

(***************************************************************************)
(* create_render_layer (render_tree.rs).  `elems[0]` on an empty list is   *)
(* an out-of-bounds index: the call panics.                                *)
(***************************************************************************)
Panic == [ok |-> FALSE, panic |-> "index out of bounds"]
RenderLayer(trees) == [trees |-> trees]

RECURSIVE create_render_trees(_, _)
create_render_trees(elems, i) ==
    IF i > Len(elems) THEN Ok(<<>>)
    ELSE LET head == create_render_tree(elems[i]) IN
         IF ~head.ok THEN head
         ELSE LET rest == create_render_trees(elems, i + 1) IN
              IF ~rest.ok THEN rest ELSE Ok(<<head.val>> \o rest.val)

create_render_layer(e) ==
    IF as_list(e) = None THEN Err(ExpectedList(e))
    ELSE LET elems == e.v IN
         IF Len(elems) = 0 THEN Panic
         ELSE IF as_symbol(elems[1]) # Some("layer")
              THEN Err(ExpectedSymbol("layer", e))
         ELSE LET trees == create_render_trees(elems, 2) IN
              IF ~trees.ok THEN trees ELSE Ok(RenderLayer(trees.val))

(***************************************************************************)
(* ratatui: Rect, the frame buffer, Block::inner, the widgets' painting    *)
(* and Layout::split, as far as the render pass depends on them.           *)
(***************************************************************************)
Rect(x, y, w, h) == [x |-> x, y |-> y, width |-> w, height |-> h]
Cells == (0..(MaxWidth - 1)) \X (0..(MaxHeight - 1))
CellsOf(r) ==
    {c \in Cells : /\ r.x <= c[1] /\ c[1] < r.x + r.width
                   /\ r.y <= c[2] /\ c[2] < r.y + r.height}
Blank == [by |-> 0, sym |-> "blank"]
Min2(a, b) == IF a < b THEN a ELSE b
SatSub(a, b) == IF a < b THEN 0 ELSE a - b

\* Block::inner: one cell off each bordered edge, and one row off the top
\* when the block has a title
Block_inner(widget, r) ==
    LET r1 == IF "Left" \in widget.borders
              THEN [r EXCEPT !.x = Min2(r.x + 1, r.x + r.width),
                             !.width = SatSub(r.width, 1)]
              ELSE r
        r2 == IF "Top" \in widget.borders \/ widget.titles # <<>>
              THEN [r1 EXCEPT !.y = Min2(r1.y + 1, r1.y + r1.height),
                              !.height = SatSub(r1.height, 1)]
              ELSE r1
        r3 == IF "Right" \in widget.borders
              THEN [r2 EXCEPT !.width = SatSub(r2.width, 1)]
              ELSE r2
    IN IF "Bottom" \in widget.borders
       THEN [r3 EXCEPT !.height = SatSub(r3.height, 1)]
       ELSE r3

\* Block::bordered().title(title)
Block_bordered(title) ==
    [titles |-> <<title>>, titles_alignment |-> "Left", borders |-> Borders_ALL]

\* cells a Text / Paragraph widget writes: the text on the first row, clipped
TextCells(content, r) ==
    {c \in CellsOf(r) : c[2] = r.y /\ c[1] < r.x + Len(content)}

\* cells a Block widget writes: its border edges and its title on the top row
BlockCells(widget, r) ==
    LET left == IF "Left" \in widget.borders THEN 1 ELSE 0
        right == IF "Right" \in widget.borders THEN 1 ELSE 0
        avail == SatSub(r.width, left + right)
        len == IF widget.titles = <<>> THEN 0 ELSE Min2(Len(widget.titles[1]), avail)
        start == r.x + left +
                 (CASE widget.titles_alignment = "Left" -> 0
                    [] widget.titles_alignment = "Center" -> (avail - len) \div 2
                    [] widget.titles_alignment = "Right" -> avail - len)
    IN {c \in CellsOf(r) :
          \/ "Left" \in widget.borders /\ c[1] = r.x
          \/ "Right" \in widget.borders /\ c[1] = r.x + r.width - 1
          \/ "Top" \in widget.borders /\ c[2] = r.y
          \/ "Bottom" \in widget.borders /\ c[2] = r.y + r.height - 1
          \/ c[2] = r.y /\ start <= c[1] /\ c[1] < start + len}

Paint(buf, cells, li, sym) ==
    [c \in Cells |-> IF c \in cells THEN [by |-> li, sym |-> sym] ELSE buf[c]]
Mark(p, cells, li) ==
    [c \in Cells |-> IF c \in cells THEN p[c] \cup {li} ELSE p[c]]

\* Layout::default().direction(d).constraints(cs).split(area): one Rect per
\* constraint, laid side by side from the start of the area along d.
\* Length, Max and Percentage elements ask for a size of their own; Min and
\* Fill elements take up whatever the others leave.  Sizes the solver is
\* free to choose are chosen nondeterministically.
Extent(d, r) == IF d = "Horizontal" THEN r.width ELSE r.height
IsFlexible(c) == c.kind \in {"Min", "Fill"}
Demands(c, extent) ==
    CASE c.kind \in {"Length", "Max"} -> {c.n}
      [] c.kind = "Percentage" ->
            {(c.n * extent) \div 100, (c.n * extent + 99) \div 100}
      [] OTHER -> 0..extent
RECURSIVE SumSeq(_)
SumSeq(sq) == IF sq = <<>> THEN 0 ELSE sq[1] + SumSeq(Tail(sq))
LayoutSizes(cs, extent) ==
    LET n == Len(cs)
        All == [1..n -> 0..extent]
        Asked == {sz \in All : \A i \in 1..n : sz[i] \in Demands(cs[i], extent)}
        Fits == {sz \in Asked : SumSeq(sz) <= extent}
    IN IF n = 0 THEN {<<>>}
       ELSE IF \E i \in 1..n : IsFlexible(cs[i])
            THEN IF \E sz \in Fits : SumSeq(sz) = extent
                 THEN {sz \in Fits : SumSeq(sz) = extent}
                 ELSE {sz \in All : SumSeq(sz) = extent}
            ELSE IF Fits # {} THEN Fits
                 ELSE {sz \in All : SumSeq(sz) = extent}
RectsOf(d, r, sz) ==
    [i \in 1..Len(sz) |->
        LET before == SumSeq(SubSeq(sz, 1, i - 1)) IN
        IF d = "Horizontal" THEN Rect(r.x + before, r.y, sz[i], r.height)
        ELSE Rect(r.x, r.y + before, r.width, sz[i])]
Layout_split(d, cs, r) == {RectsOf(d, r, sz) : sz \in LayoutSizes(cs, Extent(d, r))}

(***************************************************************************)
(* The expression values and areas the host hands to the render engine.    *)
(***************************************************************************)
Cst(k, v) == List(<<Symbol(k), Integer(v)>>)
PlainBlock(t, c) == List(<<Symbol("block"), String(t), c>>)
StyledBlock(t, c, clauses) ==
    List(<<Symbol("block"), String(t), c, List(<<Symbol("style")>> \o clauses)>>)

RenderBlocks ==
    {PlainBlock("a", String("x")),
     PlainBlock("t1", PlainBlock("t2", String("c"))),
     StyledBlock("t", String("c"), <<List(<<Symbol("border"), Symbol("all")>>)>>),
     StyledBlock("t", String("c"), <<List(<<Symbol("title-align"), Symbol("center")>>),
                                     List(<<Symbol("border"), Symbol("left")>>)>>),
     StyledBlock("t", String("c"), <<List(<<Symbol("title_align"), Symbol("right")>>),
                                     List(<<Symbol("border"), Symbol("bottom")>>)>>)}
PairedElems ==
    {List(<<Cst("length", 1), String("c")>>),
     List(<<Cst("length", 2), PlainBlock("a", String("x"))>>),
     List(<<Cst("min", 1), String("c")>>),
     List(<<Cst("percentage", 50), PlainBlock("b", String("y"))>>),
     List(<<Cst("fill", 1), String("c")>>)}
RenderElems ==
    PairedElems
    \cup {List(<<Cst("length", 65535), String("c")>>),
          List(<<Cst("max", 1), String("yy")>>),
          List(<<Cst("fill", 0), String("zzz")>>)}
\* one element of every kind, and up to MaxElems of the paired ones in every order
RenderStacks ==
    {List(<<Symbol("stack"), d>> \o es) :
        d \in {Symbol("horizontal"), Symbol("vertical")},
        es \in NonEmptySeqsUpTo(RenderElems, 1) \cup NonEmptySeqsUpTo(PairedElems, MaxElems)}
    \cup {List(<<Symbol("stack"), Symbol("horizontal"),
                 List(<<Cst("length", 2),
                        List(<<Symbol("stack"), Symbol("vertical"),
                               List(<<Cst("length", 1), String("c")>>),
                               List(<<Cst("fill", 1), String("d")>>)>>)>>),
                 List(<<Cst("fill", 1), String("e")>>)>>)}
RenderInputs ==
    {String("hello"), List(<<Symbol("block"), String("t")>>)}
    \cup RenderBlocks \cup RenderStacks

LayerTrees ==
    {PlainBlock("a", String("x")), PlainBlock("b", String("y")), String("hello"),
     List(<<Symbol("stack"), Symbol("horizontal"),
            List(<<Cst("length", 3), PlainBlock("t2", String("c"))>>)>>)}
LayerInputs ==
    {List(<<Symbol("layer")>> \o us) : us \in SeqsUpTo(LayerTrees, MaxElems)}
    \cup {List(<<>>), String("layer"), Symbol("layer"),
          List(<<Symbol("layers"), String("x")>>),
          List(<<String("layer"), String("x")>>)}

FrameSizes == {Rect(0, 0, MaxWidth, MaxHeight), Rect(0, 0, 2, 1)}
Areas == FrameSizes \cup {Rect(1, 1, MaxWidth - 1, MaxHeight - 1), Rect(0, 0, 0, 0)}

(***************************************************************************)
(* The host calls create_render_tree on an expression value.               *)
(***************************************************************************)
Init ==
    /\ pc = "idle"
    /\ entry = "none"
    /\ exp = None
    /\ result = None
    /\ area = None
    /\ work = <<>>
    /\ frame = [c \in Cells |-> Blank]
    /\ painted = [c \in Cells |-> {}]
    /\ visits = <<>>
    /\ splits = <<>>
    /\ outcome = "none"

Build ==
    /\ pc = "idle"
    /\ \E e \in BuildInputs :
        /\ exp' = e
        /\ result' = create_render_tree(e)
    /\ entry' = "create_render_tree"
    /\ pc' = "built"
    /\ UNCHANGED <<area, work, frame, painted, visits, splits, outcome>>

\* the same call against the module-split builder
BuildSplit ==
    /\ pc = "idle"
    /\ \E e \in BuildInputs :
        /\ exp' = e
        /\ result' = split_create_render_tree(e)
    /\ entry' = "split_create_render_tree"
    /\ pc' = "built"
    /\ UNCHANGED <<area, work, frame, painted, visits, splits, outcome>>

\* create_constraint called on its own, as test_create_constraint does
BuildConstraint ==
    /\ pc = "idle"
    /\ \E e \in GoodConstraints \cup BadConstraints :
        /\ exp' = e
        /\ result' = create_constraint(e)
    /\ entry' = "create_constraint"
    /\ pc' = "built"
    /\ UNCHANGED <<area, work, frame, painted, visits, splits, outcome>>

\* the same call against create_constraint of stack.rs
BuildStackConstraint ==
    /\ pc = "idle"
    /\ \E e \in GoodConstraints \cup BadConstraints :
        /\ exp' = e
        /\ result' = stack_create_constraint(e)
    /\ entry' = "stack::create_constraint"
    /\ pc' = "built"
    /\ UNCHANGED <<area, work, frame, painted, visits, splits, outcome>>

BuildLayer ==
    /\ pc = "idle"
    /\ \E e \in LayerInputs :
        /\ exp' = e
        /\ result' = create_render_layer(e)
    /\ entry' = "create_render_layer"
    /\ pc' = "built"
    /\ UNCHANGED <<area, work, frame, painted, visits, splits, outcome>>

(***************************************************************************)
(* The render pass.  `work` holds the calls still to be made, the next one *)
(* first; a call is identified by its path from the root of the pass.      *)
(***************************************************************************)
Call(tree, r, path, li) ==
    [op |-> "render_tree", tree |-> tree, area |-> r, path |-> path, li |-> li]
WidgetCall(widget, r, path, li) ==
    [op |-> "render_widget", tree |-> widget, area |-> r, path |-> path, li |-> li]
Top == work[1]
Visit(item) == [path |-> item.path, tree |-> item.tree, area |-> item.area]
Split(item, layout) ==
    [path |-> item.path, area |-> item.area, direction |-> item.tree.direction,
     elements |-> item.tree.elements, rects |-> layout]
Constraints(stack_elems) == [i \in 1..Len(stack_elems) |-> stack_elems[i].constraint]

\* `for (content, area) in stack_elems.iter().zip(layout.iter())` of
\* renderer.rs, the i-th content paired with the i-th rect of the layout
\* the zip taken against the layout in reverse
StackCalls_Reversed(stack_elems, layout, path, li) ==
    [i \in 1..Min2(Len(stack_elems), Len(layout)) |->
        Call(stack_elems[i].content, layout[Len(layout) + 1 - i], path \o <<i>>, li)]

StackCalls(stack_elems, layout, path, li) ==
    [i \in 1..Min2(Len(stack_elems), Len(layout)) |->
        Call(stack_elems[i].content, layout[i], path \o <<i>>, li)]

\* the same loop in lib.rs
lib_StackCalls(stack_elems, layout, path, li) ==
    [i \in 1..Min2(Len(stack_elems), Len(layout)) |->
        Call(stack_elems[i].content, layout[i], path \o <<i>>, li)]

\* `for tree in layer.iter()` of renderer.rs, every tree into the same area
\* the loop run from the last tree to the first
LayerCalls_Reversed(layer, r) ==
    [i \in 1..Len(layer.trees) |->
        Call(layer.trees[Len(layer.trees) + 1 - i], r,
             <<Len(layer.trees) + 1 - i>>, Len(layer.trees) + 1 - i)]

LayerCalls(layer, r) ==
    [i \in 1..Len(layer.trees) |-> Call(layer.trees[i], r, <<i>>, i)]

\* the same loop in lib.rs
lib_LayerCalls(layer, r) ==
    [i \in 1..Len(layer.trees) |-> Call(layer.trees[i], r, <<i>>, i)]

RendererEntry == entry \in {"renderer::render_tree", "renderer::render_layer"}
LibEntry == entry \in {"UIEngine::render", "UIEngine::render_layer"}
Rendering(op) == pc = "rendering" /\ work # <<>> /\ Top.op = op

\* renderer.rs: pub fn render_tree / render_layer, called on a built tree
Renderer_render_tree ==
    /\ pc = "idle"
    /\ \E e \in RenderInputs, r \in Areas :
       \E tree \in {split_create_render_tree(e).val} :
        /\ exp' = e
        /\ result' = Ok(tree)
        /\ area' = r
        /\ work' = <<Call(tree, r, <<1>>, 1)>>
    /\ entry' = "renderer::render_tree"
    /\ pc' = "rendering"
    /\ UNCHANGED <<frame, painted, visits, splits, outcome>>

Renderer_render_layer ==
    /\ pc = "idle"
    /\ \E us \in SeqsUpTo(LayerTrees, MaxElems), r \in Areas :
       \E layer \in {RenderLayer([i \in 1..Len(us) |-> split_create_render_tree(us[i]).val])} :
        /\ exp' = List(<<Symbol("layer")>> \o us)
        /\ result' = Ok(layer)
        /\ area' = r
        /\ work' = LayerCalls(layer, r)
    /\ entry' = "renderer::render_layer"
    /\ pc' = "rendering"
    /\ UNCHANGED <<frame, painted, visits, splits, outcome>>

render_tree_Text ==
    /\ Rendering("render_tree") /\ RendererEntry /\ Top.tree.k = "Text"
    /\ frame' = Paint(frame, TextCells(Top.tree.content, Top.area), Top.li, "text")
    /\ painted' = Mark(painted, TextCells(Top.tree.content, Top.area), Top.li)
    /\ visits' = Append(visits, Visit(Top))
    /\ work' = Tail(work)
    /\ UNCHANGED <<pc, entry, exp, result, area, splits, outcome>>

render_tree_Block ==
    /\ Rendering("render_tree") /\ RendererEntry /\ Top.tree.k = "Block"
    /\ work' = <<Call(Top.tree.content, Block_inner(Top.tree.widget, Top.area),
                      Top.path \o <<1>>, Top.li),
                 WidgetCall(Top.tree.widget, Top.area, Top.path, Top.li)>>
               \o Tail(work)
    /\ visits' = Append(visits, Visit(Top))
    /\ UNCHANGED <<pc, entry, exp, result, area, frame, painted, splits, outcome>>

render_tree_BlockWidget ==
    /\ Rendering("render_widget") /\ RendererEntry
    /\ frame' = Paint(frame, BlockCells(Top.tree, Top.area), Top.li, "block")
    /\ painted' = Mark(painted, BlockCells(Top.tree, Top.area), Top.li)
    /\ work' = Tail(work)
    /\ UNCHANGED <<pc, entry, exp, result, area, visits, splits, outcome>>

render_tree_Stack ==
    /\ Rendering("render_tree") /\ RendererEntry /\ Top.tree.k = "Stack"
    /\ \E layout \in Layout_split(Top.tree.direction, Constraints(Top.tree.elements), Top.area) :
        /\ work' = StackCalls(Top.tree.elements, layout, Top.path, Top.li) \o Tail(work)
        /\ splits' = Append(splits, Split(Top, layout))
    /\ visits' = Append(visits, Visit(Top))
    /\ UNCHANGED <<pc, entry, exp, result, area, frame, painted, outcome>>

\* lib.rs: UIEngine::render and UIEngine::render_layer, and the private
\* render_tree of lib.rs they draw with
UIEngine_render ==
    /\ pc = "idle"
    /\ \E e \in RenderInputs, r \in FrameSizes :
       \E built \in {create_render_tree(e)} :
        /\ exp' = e
        /\ result' = built
        /\ area' = r
        /\ IF built.ok
           THEN /\ work' = <<Call(built.val, r, <<1>>, 1)>>
                /\ UNCHANGED <<frame, painted>>
           ELSE /\ work' = <<>>
                /\ frame' = Paint(frame, CellsOf(r), 1, "error")
                /\ painted' = Mark(painted, CellsOf(r), 1)
    /\ entry' = "UIEngine::render"
    /\ pc' = "rendering"
    /\ UNCHANGED <<visits, splits, outcome>>

UIEngine_render_layer ==
    /\ pc = "idle"
    /\ \E e \in LayerInputs, r \in FrameSizes :
       \E layer \in {create_render_layer(e)} :
        /\ exp' = e
        /\ result' = layer
        /\ area' = r
        /\ IF layer.ok
           THEN /\ work' = lib_LayerCalls(layer.val, r)
                /\ pc' = "rendering"
                /\ UNCHANGED outcome
           ELSE /\ work' = <<>>
                /\ pc' = "done"
                /\ outcome' = IF layer = Panic THEN "panic" ELSE "Err"
    /\ entry' = "UIEngine::render_layer"
    /\ UNCHANGED <<frame, painted, visits, splits>>

lib_render_tree_Text ==
    /\ Rendering("render_tree") /\ LibEntry /\ Top.tree.k = "Text"
    /\ frame' = Paint(frame, TextCells(Top.tree.content, Top.area), Top.li, "text")
    /\ painted' = Mark(painted, TextCells(Top.tree.content, Top.area), Top.li)
    /\ visits' = Append(visits, Visit(Top))
    /\ work' = Tail(work)
    /\ UNCHANGED <<pc, entry, exp, result, area, splits, outcome>>

lib_render_tree_Block ==
    /\ Rendering("render_tree") /\ LibEntry /\ Top.tree.k = "Block"
    /\ LET block == Block_bordered(Top.tree.block.title) IN
       work' = <<Call(Top.tree.block.content, Block_inner(block, Top.area),
                      Top.path \o <<1>>, Top.li),
                 WidgetCall(block, Top.area, Top.path, Top.li)>>
               \o Tail(work)
    /\ visits' = Append(visits, Visit(Top))
    /\ UNCHANGED <<pc, entry, exp, result, area, frame, painted, splits, outcome>>

lib_render_tree_BlockWidget ==
    /\ Rendering("render_widget") /\ LibEntry
    /\ frame' = Paint(frame, BlockCells(Top.tree, Top.area), Top.li, "block")
    /\ painted' = Mark(painted, BlockCells(Top.tree, Top.area), Top.li)
    /\ work' = Tail(work)
    /\ UNCHANGED <<pc, entry, exp, result, area, visits, splits, outcome>>

lib_render_tree_Stack ==
    /\ Rendering("render_tree") /\ LibEntry /\ Top.tree.k = "Stack"
    /\ \E layout \in Layout_split(Top.tree.direction, Constraints(Top.tree.elements), Top.area) :
        /\ work' = lib_StackCalls(Top.tree.elements, layout, Top.path, Top.li) \o Tail(work)
        /\ splits' = Append(splits, Split(Top, layout))
    /\ visits' = Append(visits, Visit(Top))
    /\ UNCHANGED <<pc, entry, exp, result, area, frame, painted, outcome>>

\* the pass has made its last call: the entry point returns
RenderReturn ==
    /\ pc = "rendering" /\ work = <<>>
    /\ pc' = "done"
    /\ outcome' = "Ok"
    /\ UNCHANGED <<entry, exp, result, area, work, frame, painted, visits, splits>>

Next ==
    \/ Build
    \/ BuildSplit
    \/ BuildLayer
    \/ BuildConstraint
    \/ BuildStackConstraint
    \/ Renderer_render_tree
    \/ Renderer_render_layer
    \/ render_tree_Text
    \/ render_tree_Block
    \/ render_tree_BlockWidget
    \/ render_tree_Stack
    \/ UIEngine_render
    \/ UIEngine_render_layer
    \/ lib_render_tree_Text
    \/ lib_render_tree_Block
    \/ lib_render_tree_BlockWidget
    \/ lib_render_tree_Stack
    \/ RenderReturn

Spec == Init /\ [][Next]_vars

\* the host drives the UIEngine entry points of lib.rs only
NextUIEngine ==
    \/ UIEngine_render
    \/ UIEngine_render_layer
    \/ lib_render_tree_Text
    \/ lib_render_tree_Block
    \/ lib_render_tree_BlockWidget
    \/ lib_render_tree_Stack
    \/ RenderReturn

SpecUIEngine == Init /\ [][NextUIEngine]_vars

(***************************************************************************)
(* Shapes of expression values used by the properties.                     *)
(***************************************************************************)
IsList(e) == e # None /\ e.t = "List"
HasHead(e, name) == IsList(e) /\ Len(e.v) >= 1 /\ e.v[1] = Symbol(name)
Built == pc = "built" /\ entry = "create_render_tree"
BuiltSplit == pc = "built" /\ entry = "split_create_render_tree"
BuiltAny == Built \/ BuiltSplit
\* the builder behind the entry point that was called
Builder(e) ==
    IF entry = "create_render_tree" THEN create_render_tree(e)
    ELSE split_create_render_tree(e)
\* title, content and title alignment of a built Block node, in either tree
TitleOf(tree) ==
    IF entry = "create_render_tree" THEN tree.block.title ELSE tree.widget.titles[1]
ContentOf(tree) ==
    IF entry = "create_render_tree" THEN tree.block.content ELSE tree.content
AlignOf(tree) ==
    IF entry = "create_render_tree" THEN tree.block.style.title_align
    ELSE tree.widget.titles_alignment
DefaultStyled(tree) ==
    IF entry = "create_render_tree" THEN tree.block.style = [title_align |-> "Left"]
    ELSE /\ tree.widget.titles_alignment = "Left"
         /\ tree.widget.borders = {}
         /\ Len(tree.widget.titles) = 1

\* C1: create_render_tree returns the first success of block, stack, text in
\* that order: the Block when the block builder succeeds, else the Stack when
\* the stack builder succeeds, else Text(stringify(e)); (block t1 (block t2 c))
\* is a two-level Block chain ending in Text(c).
C1_FirstSuccess ==
    Built =>
        /\ Block_from_exp(exp).ok =>
              result = Ok(BlockNode(Block_from_exp(exp).val))
        /\ (~Block_from_exp(exp).ok /\ create_stack(exp).ok) =>
              /\ result.ok /\ result.val.k = "Stack"
              /\ result = create_stack(exp)
        /\ (~Block_from_exp(exp).ok /\ ~create_stack(exp).ok) =>
              result = Ok(Text(to_string(exp)))
        /\ \A t \in Titles :
              exp = List(<<Symbol("block"), t,
                           List(<<Symbol("block"), String("t2"), String("c")>>)>>)
              => result = Ok(BlockNode(Block_new(to_string(t),
                                 BlockNode(Block_new("t2", Text("c"))))))
        /\ exp = String("c") => result = Ok(Text("c"))

C1_Witness ==
    /\ Built
    /\ exp = List(<<Symbol("block"), String("t"),
                    List(<<Symbol("block"), String("t2"), String("c")>>)>>)
    /\ result.ok /\ result.val.k = "Block"
    /\ result.val.block.content.k = "Block"
    /\ result.val.block.content.block.content = Text("c")

C1_WitnessStack ==
    Built /\ HasHead(exp, "stack") /\ result.ok /\ result.val.k = "Stack"

\* C2: building a stack-shaped expression whose direction element is neither
\* `horizontal` nor `vertical` returns the error InvalidDirection carrying the
\* raw text of the direction.
BadDirectionStack(e) ==
    /\ HasHead(e, "stack") /\ Len(e.v) >= 3
    /\ e.v[2].t = "Symbol" /\ e.v[2].v \notin {"horizontal", "vertical"}

C2_InvalidDirectionError ==
    (Built /\ BadDirectionStack(exp)) =>
        result = Err(InvalidDirection(to_string(exp.v[2])))

\* C3: a list with head `block` and fewer than 3 elements is not an error:
\* create_render_tree returns Text of the stringified whole expression.
ShortBlock(e) == HasHead(e, "block") /\ Len(e.v) < 3

C3_ShortBlockIsText ==
    (Built /\ ShortBlock(exp)) => result = Ok(Text(to_string(exp)))

C3_Witness ==
    /\ Built /\ ShortBlock(exp) /\ Len(exp.v) = 2
    /\ result = Ok(Text("(block t)"))

(***************************************************************************)
(* Style clauses as the expression grammar words them.                     *)
(***************************************************************************)
GrammarAlign(c) ==
    /\ IsList(c) /\ Len(c.v) = 2
    /\ c.v[1] \in {Symbol("title_align"), Symbol("title-align")}
    /\ c.v[2] \in {Symbol("left"), Symbol("center"), Symbol("right")}
GrammarBorder(c) ==
    /\ IsList(c) /\ Len(c.v) = 2
    /\ c.v[1] \in {Symbol("border"), Symbol("borders")}
    /\ c.v[2] \in {Symbol(b) : b \in {"none", "left", "right", "top", "bottom", "all"}}
AlignNamed(v) ==
    CASE v = "left" -> "Left" [] v = "center" -> "Center" [] v = "right" -> "Right"

BlockWith3(e) == HasHead(e, "block") /\ Len(e.v) >= 3
WellFormedStyle(st) == IsList(st) /\ Len(st.v) >= 2 /\ st.v[1] = Symbol("style")
IsBlockOf(r, e) ==
    /\ r.ok /\ r.val.k = "Block"
    /\ TitleOf(r.val) = to_string(e.v[2])
    /\ ContentOf(r.val) = Builder(e.v[3]).val

UnrecognisedStyle(e) ==
    /\ BlockWith3(e) /\ Len(e.v) = 4
    /\ WellFormedStyle(e.v[4])
    /\ \A i \in 2..Len(e.v[4].v) :
          ~GrammarAlign(e.v[4].v[i]) /\ ~GrammarBorder(e.v[4].v[i])

C5_UnrecognisedClausesIgnored ==
    (BuiltAny /\ UnrecognisedStyle(exp)) =>
        /\ result = Builder(List(<<exp.v[1], exp.v[2], exp.v[3]>>))
        /\ IsBlockOf(result, exp)
        /\ DefaultStyled(result.val)

C5_Witness ==
    /\ Built /\ UnrecognisedStyle(exp)
    /\ exp.v[4] = List(<<Symbol("style"), List(<<Symbol("bogus-clause")>>),
                         List(<<Symbol("title_align"), Symbol("diagonal")>>)>>)
    /\ result = Ok(BlockNode(Block_new("t", Text("c"))))

\* C6: a style clause (H V) with H spelled `title_align` or `title-align` and
\* V in {left, center, right} sets the block's title alignment to V, both
\* spellings alike, the last such clause deciding.
AlignClausesAt(st) == {i \in 2..Len(st.v) : GrammarAlign(st.v[i])}
LastAlign(st) ==
    LET last == CHOOSE i \in AlignClausesAt(st) : \A j \in AlignClausesAt(st) : j <= i
    IN AlignNamed(st.v[last].v[2].v)

C6_BothSpellingsSetAlignment ==
    (/\ BuiltAny /\ BlockWith3(exp) /\ Len(exp.v) = 4
     /\ WellFormedStyle(exp.v[4])
     /\ AlignClausesAt(exp.v[4]) # {})
    => /\ result.ok /\ result.val.k = "Block"
       /\ AlignOf(result.val) = LastAlign(exp.v[4])

\* C7 (as claimed): a well-formed (stack D (c1 e1) ... (cn en)) builds
\* Stack(D, elements) with n elements, the i-th with the constraint kind of
\* ci, the value v and the content create_render_tree(ei), in order.
KindNamed == [length |-> "Length", min |-> "Min", max |-> "Max",
              percentage |-> "Percentage", fill |-> "Fill"]
DirectionNamed == [horizontal |-> "Horizontal", vertical |-> "Vertical"]
WellFormedConstraint(c) ==
    /\ IsList(c) /\ Len(c.v) = 2
    /\ c.v[1].t = "Symbol" /\ c.v[1].v \in ConstraintKinds
    /\ c.v[2].t = "Integer"
WellFormedStack(e) ==
    /\ HasHead(e, "stack") /\ Len(e.v) >= 3
    /\ e.v[2] \in {Symbol("horizontal"), Symbol("vertical")}
    /\ \A i \in 3..Len(e.v) :
          /\ IsList(e.v[i]) /\ Len(e.v[i].v) = 2
          /\ WellFormedConstraint(e.v[i].v[1])
\* the stack built from e, the value of (kind v) being Value(v)
IsStackOf(r, e, Value(_)) ==
    /\ r.ok /\ r.val.k = "Stack"
    /\ r.val.direction = DirectionNamed[e.v[2].v]
    /\ Len(r.val.elements) = Len(e.v) - 2
    /\ \A i \in 1..(Len(e.v) - 2) :
          LET c == e.v[i + 2].v[1]
              el == r.val.elements[i]
          IN /\ el.constraint.kind = KindNamed[c.v[1].v]
             /\ el.constraint.n = Value(c.v[2].v)
             /\ el.content = Builder(e.v[i + 2].v[2]).val
Exactly(v) == v
Wrapped(v) == v % 65536

C7_StackElementsExact ==
    (BuiltAny /\ WellFormedStack(exp)) => IsStackOf(result, exp, Exactly)

\* C7 (amended): as claimed, the value of the i-th constraint being
\* v mod 2^16 (v itself when 0 <= v <= 65535).
C7_StackElementsWrapped ==
    (BuiltAny /\ WellFormedStack(exp)) => IsStackOf(result, exp, Wrapped)

C7_Witness ==
    /\ Built /\ WellFormedStack(exp) /\ Len(exp.v) = 4
    /\ exp.v[3].v[1] # exp.v[4].v[1]
    /\ exp.v[3].v[2] # exp.v[4].v[2]
    /\ IsStackOf(result, exp, Wrapped)

(***************************************************************************)
(* Geometry used by the properties of the render pass.                     *)
(***************************************************************************)
PointsOf(r) == (r.x..(r.x + r.width - 1)) \X (r.y..(r.y + r.height - 1))
Contained(r, a) ==
    /\ r.width >= 0 /\ r.height >= 0
    /\ a.x <= r.x /\ r.x + r.width <= a.x + a.width
    /\ a.y <= r.y /\ r.y + r.height <= a.y + a.height
AlongDirection(d, r, a) ==
    IF d = "Horizontal" THEN r.y = a.y /\ r.height = a.height
    ELSE r.x = a.x /\ r.width = a.width
Disjoint(r1, r2) == PointsOf(r1) \cap PointsOf(r2) = {}
Covered(rects, a) == UNION {PointsOf(rects[i]) : i \in 1..Len(rects)} = PointsOf(a)
StartOf(d, r) == IF d = "Horizontal" THEN r.x ELSE r.y
SideBySide(d, rects, a) ==
    \A i \in 1..Len(rects) :
        StartOf(d, rects[i]) =
            IF i = 1 THEN StartOf(d, a)
            ELSE StartOf(d, rects[i - 1]) + Extent(d, rects[i - 1])
Passed == pc = "done" /\ outcome = "Ok"
VisitsAt(path) == {j \in 1..Len(visits) : visits[j].path = path}

\* n sub-rectangles inside the area, splitting it along the direction,
\* pairwise non-overlapping
PartitionShape(sp) ==
    /\ Len(sp.rects) = Len(sp.elements)
    /\ \A i \in 1..Len(sp.rects) :
          /\ Contained(sp.rects[i], sp.area)
          /\ AlongDirection(sp.direction, sp.rects[i], sp.area)
    /\ \A i, j \in 1..Len(sp.rects) : i # j => Disjoint(sp.rects[i], sp.rects[j])
\* one recursive call per element, the i-th content into the i-th
\* sub-rectangle, in element order
RecursedInOrder(sp) ==
    Passed =>
        /\ \A i \in 1..Len(sp.elements) :
              /\ Cardinality(VisitsAt(sp.path \o <<i>>)) = 1
              /\ \A j \in VisitsAt(sp.path \o <<i>>) :
                    /\ visits[j].tree = sp.elements[i].content
                    /\ visits[j].area = sp.rects[i]
        /\ \A i1, i2 \in 1..Len(sp.elements) :
              i1 < i2 => \A j1 \in VisitsAt(sp.path \o <<i1>>),
                            j2 \in VisitsAt(sp.path \o <<i2>>) : j1 < j2
        /\ \A j \in 1..Len(visits) :
              (/\ Len(visits[j].path) = Len(sp.path) + 1
               /\ SubSeq(visits[j].path, 1, Len(sp.path)) = sp.path)
              => visits[j].path[Len(visits[j].path)] \in 1..Len(sp.elements)

\* C8 (as claimed): rendering Stack(direction, elements) partitions the area
\* along the direction into n sub-rectangles, each inside the area with
\* non-negative size, pairwise non-overlapping and together covering the
\* area, and recurses once per element, the i-th content into the i-th
\* sub-rectangle, in element order.
C8_StackPartitionCovers ==
    \A k \in 1..Len(splits) :
        /\ PartitionShape(splits[k])
        /\ Covered(splits[k].rects, splits[k].area)
        /\ RecursedInOrder(splits[k])

\* C8 (amended): as claimed, except that the sub-rectangles lie side by side
\* from the start of the area and cover it only when their sizes add up to
\* its extent; elements that ask for less leave the rest of the area to no
\* element.
C8_StackPartition ==
    \A k \in 1..Len(splits) :
        LET sp == splits[k]
            sizes == [i \in 1..Len(sp.rects) |-> Extent(sp.direction, sp.rects[i])]
        IN /\ PartitionShape(sp)
           /\ SideBySide(sp.direction, sp.rects, sp.area)
           /\ Covered(sp.rects, sp.area)
                <=> (SumSeq(sizes) = Extent(sp.direction, sp.area)
                     \/ PointsOf(sp.area) = {})
           /\ RecursedInOrder(sp)

C8_Witness ==
    /\ Passed /\ Len(splits) >= 1
    /\ Len(splits[1].elements) = 2
    /\ splits[1].elements[1] # splits[1].elements[2]
    /\ splits[1].rects[1].width = 1 /\ splits[1].rects[2].width = 2
    /\ ~Covered(splits[1].rects, splits[1].area)
    /\ C8_StackPartition

\* C9: rendering a Block renders its content into the area shrunk by one
\* cell on each edge on which the block's style has a border and by nothing
\* on any other edge -- the full area for a block built with no style
\* clause -- and the inner region never has negative size.
StyleBorders(tree) ==
    IF LibEntry THEN {} ELSE tree.widget.borders
Shrunk(a, edges) ==
    LET l == IF "Left" \in edges THEN 1 ELSE 0
        r == IF "Right" \in edges THEN 1 ELSE 0
        t == IF "Top" \in edges THEN 1 ELSE 0
        b == IF "Bottom" \in edges THEN 1 ELSE 0
    IN Rect(a.x + l, a.y + t, SatSub(a.width, l + r), SatSub(a.height, t + b))
C9_BlockInnerByBorders ==
    \A i, j \in 1..Len(visits) :
        (visits[i].tree.k = "Block" /\ visits[j].path = visits[i].path \o <<1>>)
        => /\ visits[j].area.width >= 0 /\ visits[j].area.height >= 0
           /\ PointsOf(visits[j].area)
                = PointsOf(Shrunk(visits[i].area, StyleBorders(visits[i].tree)))

\* C10: render_layer renders each of the k trees of (layer u1 ... uk) into
\* the same area, once each and in the order u1..uk; a cell painted by
\* several trees ends with the value painted by the last of them.
LayerEntry == entry \in {"renderer::render_layer", "UIEngine::render_layer"}
IsRoot(v) == Len(v.path) = 1
MaxOf(S) == CHOOSE m \in S : \A n \in S : n <= m
C10_LayerPaintOver ==
    /\ \A c \in Cells : painted[c] # {} => frame[c].by = MaxOf(painted[c])
    /\ (Passed /\ LayerEntry) =>
          LET roots == SelectSeq(visits, IsRoot) IN
          /\ Len(roots) = Len(exp.v) - 1
          /\ Len(roots) = Len(result.val.trees)
          /\ \A i \in 1..Len(roots) :
                /\ roots[i].path = <<i>>
                /\ roots[i].tree = result.val.trees[i]
                /\ roots[i].area = area
                /\ entry = "UIEngine::render_layer" =>
                      roots[i].tree = create_render_tree(exp.v[i + 1]).val

C10_Witness ==
    /\ Passed /\ LayerEntry
    /\ Len(result.val.trees) = 2
    /\ result.val.trees[1] # result.val.trees[2]
    /\ \E c \in Cells : painted[c] = {1, 2} /\ frame[c].by = 2

\* C11: whenever the build of the expression given to UIEngine::render or
\* UIEngine::render_layer fails, the call completes normally (Ok) and an
\* error message has been drawn in the frame in place of the UI.
HostCall == entry \in {"UIEngine::render", "UIEngine::render_layer"}
ErrorDrawn == \E c \in CellsOf(area) : frame[c].sym = "error"

C11_FailedBuildDrawsError ==
    (pc = "done" /\ HostCall /\ ~result.ok) => (outcome = "Ok" /\ ErrorDrawn)

\* C12: create_render_tree is total and never returns an error: for every
\* expression, block- or stack-headed lists that fail their own validation
\* at any depth included, the call returns Ok(tree), and when both the block
\* builder and the stack builder fail the tree is the Text of the expression.
SubBuildersFail(e) == ~Block_from_exp(e).ok /\ ~create_stack(e).ok

C12_NeverReturnsError ==
    /\ BuiltAny => result.ok
    /\ (Built /\ SubBuildersFail(exp)) => result = Ok(Text(to_string(exp)))

\* a stack whose constraint value is not an integer: the stack builder's
\* ExpectInteger is not what the call returns
C12_Witness ==
    /\ Built /\ HasHead(exp, "stack") /\ Len(exp.v) >= 3
    /\ ~create_stack(exp).ok /\ create_stack(exp).err.e = "ExpectInteger"
    /\ result.ok /\ result.val.k = "Text"

\* C13: create_render_layer never faults: it returns a RenderLayer or a
\* RenderTreeError for every expression; a non-list yields ExpectedList and
\* every list whose first element is not the symbol `layer`, the empty list
\* included, yields ExpectedSymbol("layer").
BuiltLayer == pc = "built" /\ entry = "create_render_layer"

C13_LayerNeverFaults ==
    BuiltLayer =>
        /\ result # Panic
        /\ ~IsList(exp) => result = Err(ExpectedList(exp))
        /\ (IsList(exp) /\ ~HasHead(exp, "layer")) =>
              result = Err(ExpectedSymbol("layer", exp))

\* C14: for every constraint expression (kind v) with kind one of length,
\* min, max, percentage, fill and v an integer, the built constraint is of
\* that kind and carries v mod 2^16 as an unsigned 16-bit number: v itself
\* when 0 <= v <= 65535, and otherwise the one value in 0..65535 that
\* differs from v by a multiple of 2^16; no such expression is rejected.
BuiltConstraint ==
    pc = "built" /\ entry \in {"create_constraint", "stack::create_constraint"}

C14_ConstraintValueWraps ==
    (BuiltConstraint /\ WellFormedConstraint(exp)) =>
        LET v == exp.v[2].v IN
        /\ result.ok
        /\ result.val.kind = KindNamed[exp.v[1].v]
        /\ result.val.n \in 0..65535
        /\ (v - result.val.n) % 65536 = 0
        /\ (v \in 0..65535) => result.val.n = v

\* (min -1) builds Min(65535)
C14_Witness ==
    /\ BuiltConstraint /\ WellFormedConstraint(exp)
    /\ exp.v[2].v = -1
    /\ result.ok /\ result.val.n = 65535

\* (fill 65536) builds Fill(0), in stack.rs as well
C14_WitnessZero ==
    /\ pc = "built" /\ entry = "stack::create_constraint"
    /\ exp = Cst("fill", 65536)
    /\ result = Ok(Constraint("Fill", 0))

====
